---- MODULE Spec2Model ----
(***************************************************************************)
(* A model of scalapy/routines.py: the three operations eigh, cholesky and *)
(* dot, run SPMD by every process of a process grid.  Each process runs    *)
(* the Python code of the operation up to the backend invocation (which is *)
(* collective and blocking), the backend then completes on all processes   *)
(* at once, and each process runs the code that follows the invocation.    *)
(***************************************************************************)
EXTENDS Integers, Sequences, FiniteSets, TLC

VARIABLES
    call,       \* the arguments of the call, the same on every process
    pc,         \* pc[p]: "start", "inBackend", "backendReturned", "returned", "raised"
    heap,       \* heap[p]: the DistributedMatrix objects of process p, by name
    operand,    \* operand[p]: the object the local name A is bound to after line 39 / 98
    evals,      \* evals[p]: the numpy array evals of eigh (a sequence)
    calls,      \* calls[p]: the backend invocations made by p, in order
    info,       \* info[p]: what the backend returned to p
    outcome,    \* outcome[p]: what the operation returned or raised on p
    log,        \* log[p]: the copies, allocations and backend entries of p, in order
    left        \* left[p]: the local data the backend left in its operand on p

vars == <<call, pc, heap, operand, evals, calls, info, outcome, log, left>>

----------------------------------------------------------------------------
(* Bounds of the model. *)

MaxDim == 2         \* global dimensions range over 1..MaxDim
MaxBlock == 2       \* block shapes are <<b, b>>, b in 1..MaxBlock
MaxProcs == 2       \* process grids have at most MaxProcs processes

----------------------------------------------------------------------------
(* Element values.  Matrix entries are abstracted to a few IEEE values: the *)
(* finite numbers 0, 1, 2, an infinity and NaN, and the contents of a      *)
(* buffer that np.empty allocated and nobody has written.                  *)

Zero == "0.0"
One == "1.0"
Two == "2.0"
Inf == "inf"
NaN == "nan"
Uninit == "uninitialised"

Finite == {Zero, One, Two}
InputVals == {Zero, One, Inf}

DTypes == {"S", "D", "C", "Z"}
Tokens == {"N", "T", "H", "C", "X"}
Statuses == {-1, 0, 1}

----------------------------------------------------------------------------
(* The process grid and the block-cyclic distribution (scalapy.core).      *)

Grids == {g \in (1..MaxProcs) \X (1..MaxProcs) : g[1] * g[2] <= MaxProcs}

Contexts == {[id |-> 1, nprow |-> g[1], npcol |-> g[2]] : g \in Grids}

GridProcs(ctx) == (0..(ctx.nprow - 1)) \X (0..(ctx.npcol - 1))

\* the rank of the process at a grid position (row-major) and back
Rank(ctx, p) == p[1] * ctx.npcol + p[2]
Coord(ctx, r) == <<r \div ctx.npcol, r % ctx.npcol>>

\* global index i lives on grid coordinate (i // B) mod P
Owner(i, B, P) == (i \div B) % P

\* at local position (i // (B*P)) * B + i % B
LocalPos(i, B, P) == (i \div (B * P)) * B + (i % B)

OwnedIndices(n, B, P, me) == {i \in 0..(n - 1) : Owner(i, B, P) = me}

\* the global index held at local position lp of coordinate me
GlobalIndex(lp, n, B, P, me) ==
    CHOOSE i \in OwnedIndices(n, B, P, me) : LocalPos(i, B, P) = lp

local_shape(desc, p) ==
    << Cardinality(OwnedIndices(desc.global_shape[1], desc.block_shape[1],
                                desc.context.nprow, p[1])),
       Cardinality(OwnedIndices(desc.global_shape[2], desc.block_shape[2],
                                desc.context.npcol, p[2])) >>

LocalIdx(desc, p) ==
    (0..(local_shape(desc, p)[1] - 1)) \X (0..(local_shape(desc, p)[2] - 1))

\* the global row and the global column of the local entry x
row_index(desc, p, x) ==
    GlobalIndex(x[1], desc.global_shape[1], desc.block_shape[1], desc.context.nprow, p[1])
col_index(desc, p, x) ==
    GlobalIndex(x[2], desc.global_shape[2], desc.block_shape[2], desc.context.npcol, p[2])

\* DistributedMatrix.indices(): the global row and column of every local entry
indices(desc, p) ==
    [ri |-> [x \in LocalIdx(desc, p) |-> row_index(desc, p, x)],
     ci |-> [x \in LocalIdx(desc, p) |-> col_index(desc, p, x)]]

Desc(obj) == [global_shape |-> obj.global_shape, block_shape |-> obj.block_shape,
              dtype |-> obj.dtype, context |-> obj.context]

\* DistributedMatrix(global_shape, dtype, block_shape, context): a fresh buffer
DistributedMatrix(gs, dt, bs, ctx, p) ==
    LET d == [global_shape |-> gs, block_shape |-> bs, dtype |-> dt, context |-> ctx]
    IN  [global_shape |-> gs, block_shape |-> bs, dtype |-> dt, context |-> ctx,
         local_array |-> [shape |-> local_shape(d, p),
                          data |-> [x \in LocalIdx(d, p) |-> Uninit]]]

empty_like(obj, p) ==
    DistributedMatrix(obj.global_shape, obj.dtype, obj.block_shape, obj.context, p)

\* DistributedMatrix.copy(): same descriptor, independent storage, same values
copy(obj) ==
    [global_shape |-> obj.global_shape, block_shape |-> obj.block_shape,
     dtype |-> obj.dtype, context |-> obj.context,
     local_array |-> [shape |-> obj.local_array.shape,
                      data |-> [x \in DOMAIN obj.local_array.data |->
                                   obj.local_array.data[x]]]]

\* util.assert_square
is_square(obj) == obj.global_shape[1] = obj.global_shape[2]

\* util.real_equiv
real_equiv(dt) == IF dt \in {"S", "C"} THEN "S" ELSE "D"

----------------------------------------------------------------------------
(* The calls.  The caller's matrices are filled from a pattern: one value  *)
(* on the diagonal, one below it and one above it.                         *)

Shapes == (1..MaxDim) \X (1..MaxDim)
BlockShapes == {<<b, b>> : b \in 1..MaxBlock}
Fills == [d : {One}, l : InputVals, u : InputVals]
PlainFill == [d |-> One, l |-> One, u |-> One]

Descs(ctxs) == [global_shape : Shapes, block_shape : BlockShapes, dtype : DTypes,
                context : ctxs]

FillValue(fill, i, j) ==
    IF fill.l = fill.d /\ fill.u = fill.d THEN fill.d
    ELSE IF i = j THEN fill.d ELSE IF j < i THEN fill.l ELSE fill.u

Filled(desc, fill, p) ==
    [global_shape |-> desc.global_shape, block_shape |-> desc.block_shape,
     dtype |-> desc.dtype, context |-> desc.context,
     local_array |->
        [shape |-> local_shape(desc, p),
         data |-> [x \in LocalIdx(desc, p) |->
                     FillValue(fill, row_index(desc, p, x), col_index(desc, p, x))]]]

NoEigvals == [given |-> FALSE, lo |-> 0, hi |-> 0]

EigvalsFor(desc) ==
    {NoEigvals} \cup
    {e \in [given : {TRUE}, lo : 0..(desc.global_shape[1] - 1),
                            hi : 0..(desc.global_shape[1] - 1)] : e.lo <= e.hi}

\* an argument the caller may leave out: "omitted", or the value passed
Optional == {"omitted", "True", "False"}

NextDType(dt) == CASE dt = "S" -> "D" [] dt = "D" -> "C" [] dt = "C" -> "Z" [] OTHER -> "S"

EighCalls(a, fills) ==
    {[op |-> "eigh", A |-> a, B |-> a, fill |-> f, lower |-> lw, overwrite_a |-> ow,
      zero_triangle |-> TRUE, eigvals |-> ev, transA |-> "N", transB |-> "N"] :
        f \in fills, lw \in BOOLEAN, ow \in Optional, ev \in EigvalsFor(a)}

CholeskyCalls(a, fills) ==
    {[op |-> "cholesky", A |-> a, B |-> a, fill |-> f, lower |-> lw, overwrite_a |-> ow,
      zero_triangle |-> zt, eigvals |-> NoEigvals, transA |-> "N", transB |-> "N"] :
        f \in fills, lw \in BOOLEAN, ow \in Optional, zt \in BOOLEAN}

OtherBlockShape(bs) == IF bs = <<1, 1>> THEN <<MaxBlock, MaxBlock>> ELSE <<1, 1>>
OtherContext(ctx) == [id |-> ctx.id + 1, nprow |-> ctx.npcol, npcol |-> ctx.nprow]

\* B may have another element variant than A, and another layout: another
\* block shape on another grid
OperandsB(a) ==
    {[global_shape |-> gs, block_shape |-> lay[1], dtype |-> dt, context |-> lay[2]] :
        gs \in Shapes, dt \in {a.dtype, NextDType(a.dtype)},
        lay \in {<<a.block_shape, a.context>>,
                 <<OtherBlockShape(a.block_shape), OtherContext(a.context)>>}}

DotCalls(a, tokens) ==
    {[op |-> "dot", A |-> a, B |-> b, fill |-> PlainFill, lower |-> TRUE,
      overwrite_a |-> "omitted", zero_triangle |-> TRUE, eigvals |-> NoEigvals,
      transA |-> ta, transB |-> tb] :
        b \in OperandsB(a), ta \in tokens, tb \in tokens}

\* np.empty(N, dtype)
np_empty(N, dt) == [dtype |-> dt, data |-> [i \in 1..N |-> Uninit]]
NoArray == [dtype |-> "", data |-> <<>>]


NoOutcome == [kind |-> "none", cls |-> "", msg |-> "", value |-> <<>>]
Raise(cls, msg) == [kind |-> "raise", cls |-> cls, msg |-> msg, value |-> <<>>]
Return(value) == [kind |-> "return", cls |-> "", msg |-> "", value |-> value]

CallsOn(a, ops, fills, tokens) ==
    (IF "eigh" \in ops THEN EighCalls(a, fills) ELSE {}) \cup
    (IF "cholesky" \in ops THEN CholeskyCalls(a, fills) ELSE {}) \cup
    (IF "dot" \in ops THEN DotCalls(a, tokens) ELSE {})

\* the processes running the call: those of A's grid
Procs == GridProcs(call.A.context)

\* the caller's matrices on the process at position p of A's grid
CallerA(p) == Filled(call.A, call.fill, p)
CallerB(p) == Filled(call.B, call.fill, Coord(call.B.context, Rank(call.A.context, p)))

InitCall(ops, fills, tokens, ctxs) ==
    /\ \E a \in Descs(ctxs) : call \in CallsOn(a, ops, fills, tokens)
    /\ pc = [p \in Procs |-> "start"]
    /\ heap = [p \in Procs |->
                 IF call.op = "dot"
                 THEN ("A" :> CallerA(p)) @@ ("B" :> CallerB(p))
                 ELSE ("A" :> CallerA(p))]
    /\ operand = [p \in Procs |-> "A"]
    /\ evals = [p \in Procs |-> NoArray]
    /\ calls = [p \in Procs |-> <<>>]
    /\ info = [p \in Procs |-> [info |-> 0, m |-> 0, nz |-> 0]]
    /\ outcome = [p \in Procs |-> NoOutcome]
    /\ log = [p \in Procs |-> <<>>]
    /\ left = [p \in Procs |-> <<>>]

\* grids of one row; B's other grid is then a grid of one column
RowContexts == {c \in Contexts : c.nprow = 1}

\* one operation, with every input that matters to it
InitEigh == InitCall({"eigh"}, {PlainFill}, Tokens, Contexts)
InitCholesky == InitCall({"cholesky"}, Fills, Tokens, Contexts)
InitDot == InitCall({"dot"}, {PlainFill}, Tokens, RowContexts)
\* the three operations, on matrices of ones and with fewer tokens
Init == InitCall({"eigh", "cholesky", "dot"}, {PlainFill}, {"N", "T", "X"}, Contexts)

----------------------------------------------------------------------------
(* Python and numpy semantics used by the operations.                      *)

\* a parameter with a default: the default when the caller left it out
Passed(arg, default) == IF arg = "omitted" THEN default ELSE arg = "True"

\* numpy: value * mask entry, the mask entry a bool (True is 1, False is 0);
\* IEEE: a finite number times 0 is 0, an infinity or a NaN times 0 is NaN
Times(v, keep) ==
    IF keep THEN v
    ELSE IF v \in Finite THEN Zero
    ELSE NaN

----------------------------------------------------------------------------
(* eigh *)

\* line 7: def eigh(A, lower=True, overwrite_a=True, eigvals=None)
eigh_overwrite_a_default == TRUE

\* a faulty variant of line 39: the copy is never taken
eigh_operand_always_A(overwrite_a) == "A"

\* line 39: A = A if overwrite_a else A.copy()
eigh_operand(overwrite_a) == IF overwrite_a THEN "A" ELSE "copy"

\* a faulty variant of lines 49-50: lo and hi passed on as they are
eigh_range_unshifted(eigvals) ==
    IF eigvals.given
    THEN [erange |-> "I", low |-> eigvals.lo, high |-> eigvals.hi]
    ELSE [erange |-> "A", low |-> 1, high |-> 1]

\* lines 42, 45, 48-51: erange, low, high
eigh_range(eigvals) ==
    IF eigvals.given
    THEN [erange |-> "I", low |-> eigvals.lo + 1, high |-> eigvals.hi + 1]
    ELSE [erange |-> "A", low |-> 1, high |-> 1]

\* lines 58-63: call_table[A.sc_dtype]
eigh_call_table(sc_dtype, args) ==
    CASE sc_dtype = "S" -> [func |-> "pssyevr", args |-> args \o << <<"S", "I">> >>]
      [] sc_dtype = "D" -> [func |-> "pdsyevr", args |-> args \o << <<"D", "I">> >>]
      [] sc_dtype = "C" -> [func |-> "pcheevr", args |-> args \o << <<"C", "S", "I">> >>]
      [] sc_dtype = "Z" -> [func |-> "pzheevr", args |-> args \o << <<"Z", "D", "I">> >>]

\* lines 66-67: if info < 0: raise Exception("Failure.")
eigh_failed(status) == status < 0

\* lines 36-64, up to the invocation of the backend
eigh_enter(p) ==
    /\ call.op = "eigh"
    /\ pc[p] = "start"
    /\ IF ~is_square(heap[p]["A"])
       THEN /\ outcome' = [outcome EXCEPT ![p] = Raise("ShapeError", "not square")]
            /\ pc' = [pc EXCEPT ![p] = "raised"]
            /\ UNCHANGED <<heap, operand, evals, calls, log>>
       ELSE LET overwrite_a == Passed(call.overwrite_a, eigh_overwrite_a_default)
                A == eigh_operand(overwrite_a)
                h1 == IF A = "A" THEN heap[p]
                      ELSE ("copy" :> copy(heap[p]["A"])) @@ heap[p]
                l1 == IF A = "A" THEN <<>> ELSE <<"copy">>
                task == "V"
                uplo == IF call.lower THEN "L" ELSE "U"
                N == h1[A].global_shape[1]
                r == eigh_range(call.eigvals)
                h2 == ("evecs" :> empty_like(h1[A], p)) @@ h1
                ev == np_empty(N, real_equiv(h1[A].dtype))
                args == <<task, r.erange, uplo, N, A, One, One, r.low, r.high,
                          "evals", "evecs">>
            IN  /\ heap' = [heap EXCEPT ![p] = h2]
                /\ operand' = [operand EXCEPT ![p] = A]
                /\ evals' = [evals EXCEPT ![p] = ev]
                /\ calls' = [calls EXCEPT ![p] =
                                Append(@, eigh_call_table(h2[A].dtype, args))]
                /\ log' = [log EXCEPT ![p] = l1 \o <<"alloc", "alloc", "backend">>]
                /\ pc' = [pc EXCEPT ![p] = "inBackend"]
                /\ UNCHANGED outcome
    /\ UNCHANGED <<call, info, left>>

\* lines 64-69, from the return of the backend
eigh_finish(p) ==
    /\ call.op = "eigh"
    /\ pc[p] = "backendReturned"
    /\ IF eigh_failed(info[p].info)
       THEN /\ outcome' = [outcome EXCEPT ![p] = Raise("Exception", "Failure.")]
            /\ pc' = [pc EXCEPT ![p] = "raised"]
       ELSE /\ outcome' = [outcome EXCEPT ![p] = Return(<<evals[p].data, "evecs">>)]
            /\ pc' = [pc EXCEPT ![p] = "returned"]
    /\ UNCHANGED <<call, heap, operand, evals, calls, info, log, left>>

----------------------------------------------------------------------------
(* cholesky *)

\* line 72: def cholesky(A, lower=False, overwrite_a=False, zero_triangle=True)
cholesky_overwrite_a_default == FALSE

\* line 98: A = A if overwrite_a else A.copy()
cholesky_operand(overwrite_a) == IF overwrite_a THEN "A" ELSE "copy"

\* lines 105-110: call_table[A.sc_dtype]
cholesky_call_table(sc_dtype, args) ==
    CASE sc_dtype = "S" -> [func |-> "pspotrf", args |-> args]
      [] sc_dtype = "D" -> [func |-> "pdpotrf", args |-> args]
      [] sc_dtype = "C" -> [func |-> "pcpotrf", args |-> args]
      [] sc_dtype = "Z" -> [func |-> "pzpotrf", args |-> args]

\* a faulty variant of line 113: the status is not looked at
cholesky_failed_never(status) == FALSE

\* lines 113-114: if info < 0: raise core.ScalapackException("Failure.")
cholesky_failed(status) == status < 0

\* line 123: mask = (ci <= ri) if lower else (ci >= ri)
cholesky_mask(lower, ri, ci) == IF lower THEN ci <= ri ELSE ci >= ri

\* lines 119-124: the other triangle zeroed by multiplying with the mask
cholesky_zero_triangle(obj, lower, p) ==
    LET ix == indices(Desc(obj), p)
    IN  [obj EXCEPT !.local_array.data =
            [x \in DOMAIN obj.local_array.data |->
                Times(obj.local_array.data[x], cholesky_mask(lower, ix.ri[x], ix.ci[x]))]]

\* lines 95-111, up to the invocation of the backend
cholesky_enter(p) ==
    /\ call.op = "cholesky"
    /\ pc[p] = "start"
    /\ IF ~is_square(heap[p]["A"])
       THEN /\ outcome' = [outcome EXCEPT ![p] = Raise("ShapeError", "not square")]
            /\ pc' = [pc EXCEPT ![p] = "raised"]
            /\ UNCHANGED <<heap, operand, calls, log>>
       ELSE LET overwrite_a == Passed(call.overwrite_a, cholesky_overwrite_a_default)
                A == cholesky_operand(overwrite_a)
                h1 == IF A = "A" THEN heap[p]
                      ELSE ("copy" :> copy(heap[p]["A"])) @@ heap[p]
                l1 == IF A = "A" THEN <<>> ELSE <<"copy">>
                uplo == IF call.lower THEN "L" ELSE "U"
                N == h1[A].global_shape[1]
                args == <<uplo, N, A>>
            IN  /\ heap' = [heap EXCEPT ![p] = h1]
                /\ operand' = [operand EXCEPT ![p] = A]
                /\ calls' = [calls EXCEPT ![p] =
                                Append(@, cholesky_call_table(h1[A].dtype, args))]
                /\ log' = [log EXCEPT ![p] = l1 \o <<"backend">>]
                /\ pc' = [pc EXCEPT ![p] = "inBackend"]
                /\ UNCHANGED outcome
    /\ UNCHANGED <<call, evals, info, left>>

\* lines 111-126, from the return of the backend
cholesky_finish(p) ==
    /\ call.op = "cholesky"
    /\ pc[p] = "backendReturned"
    /\ IF cholesky_failed(info[p].info)
       THEN /\ outcome' = [outcome EXCEPT ![p] = Raise("ScalapackException", "Failure.")]
            /\ pc' = [pc EXCEPT ![p] = "raised"]
            /\ UNCHANGED <<heap, log>>
       ELSE /\ IF call.zero_triangle
               THEN /\ heap' = [heap EXCEPT ![p][operand[p]] =
                                   cholesky_zero_triangle(@, call.lower, p)]
                    /\ log' = [log EXCEPT ![p] = Append(@, "mask")]
               ELSE UNCHANGED <<heap, log>>
            /\ outcome' = [outcome EXCEPT ![p] = Return(<<operand[p]>>)]
            /\ pc' = [pc EXCEPT ![p] = "returned"]
    /\ UNCHANGED <<call, operand, evals, calls, info, left>>

----------------------------------------------------------------------------
(* dot *)

ValidTrans == {"N", "T", "H", "C"}

\* a faulty variant of lines 146-151: the element variants checked first
dot_check_args_type_first(A, B, transA, transB) ==
    IF A.dtype # B.dtype
    THEN Raise("ScalapyException", "Matrices must have same type")
    ELSE IF transA \notin ValidTrans
    THEN Raise("ScalapyException", "Trans argument for matrix A invalid")
    ELSE IF transB \notin ValidTrans
    THEN Raise("ScalapyException", "Trans argument for matrix B invalid")
    ELSE NoOutcome

\* a faulty variant of line 151: the message of line 160 raised here too
dot_check_args_one_message(A, B, transA, transB) ==
    IF transA \notin ValidTrans
    THEN Raise("ScalapyException", "Trans argument for matrix A invalid")
    ELSE IF transB \notin ValidTrans
    THEN Raise("ScalapyException", "Trans argument for matrix A invalid")
    ELSE IF A.dtype # B.dtype
    THEN Raise("ScalapyException", "Matrix shapes are incompatible.")
    ELSE NoOutcome

\* lines 146-151: the checks of the tokens and of the element variants
dot_check_args(A, B, transA, transB) ==
    IF transA \notin ValidTrans
    THEN Raise("ScalapyException", "Trans argument for matrix A invalid")
    ELSE IF transB \notin ValidTrans
    THEN Raise("ScalapyException", "Trans argument for matrix B invalid")
    ELSE IF A.dtype # B.dtype
    THEN Raise("ScalapyException", "Matrices must have same type")
    ELSE NoOutcome

\* a faulty variant of lines 154-157: the shape of the local array used
dot_dims_local(A, B, transA, transB) ==
    [m |-> IF transA \in {"N", "C"} THEN A.local_array.shape[1] ELSE A.local_array.shape[2],
     n |-> IF transB \in {"N", "C"} THEN B.local_array.shape[2] ELSE B.local_array.shape[1],
     k |-> IF transA \in {"N", "C"} THEN A.local_array.shape[2] ELSE A.local_array.shape[1],
     l |-> IF transB \in {"N", "C"} THEN B.local_array.shape[1] ELSE B.local_array.shape[2]]

\* a faulty variant of lines 154-157: C taken for a transposition
dot_dims_C_transposes(A, B, transA, transB) ==
    [m |-> IF transA \in {"N"} THEN A.global_shape[1] ELSE A.global_shape[2],
     n |-> IF transB \in {"N"} THEN B.global_shape[2] ELSE B.global_shape[1],
     k |-> IF transA \in {"N"} THEN A.global_shape[2] ELSE A.global_shape[1],
     l |-> IF transB \in {"N"} THEN B.global_shape[1] ELSE B.global_shape[2]]

\* lines 154-157: m, n, k, l
dot_dims(A, B, transA, transB) ==
    [m |-> IF transA \in {"N", "C"} THEN A.global_shape[1] ELSE A.global_shape[2],
     n |-> IF transB \in {"N", "C"} THEN B.global_shape[2] ELSE B.global_shape[1],
     k |-> IF transA \in {"N", "C"} THEN A.global_shape[2] ELSE A.global_shape[1],
     l |-> IF transB \in {"N", "C"} THEN B.global_shape[1] ELSE B.global_shape[2]]

\* lines 146-160: every check of dot, in the order of the code
dot_raises(A, B, transA, transB) ==
    LET chk == dot_check_args(A, B, transA, transB)
        d == dot_dims(A, B, transA, transB)
    IN  IF chk.kind = "raise" THEN chk
        ELSE IF d.l # d.k
        THEN Raise("ScalapyException", "Matrix shapes are incompatible.")
        ELSE NoOutcome

\* lines 166-172: call_table[A.sc_dtype]
dot_call_table(sc_dtype, args) ==
    CASE sc_dtype = "S" -> [func |-> "psgemm", args |-> args]
      [] sc_dtype = "C" -> [func |-> "pcgemm", args |-> args]
      [] sc_dtype = "D" -> [func |-> "pdgemm", args |-> args]
      [] sc_dtype = "Z" -> [func |-> "pzgemm", args |-> args]

\* lines 146-173, up to the invocation of the backend
dot_enter(p) ==
    /\ call.op = "dot"
    /\ pc[p] = "start"
    /\ LET A == heap[p]["A"]
           B == heap[p]["B"]
           err == dot_raises(A, B, call.transA, call.transB)
           d == dot_dims(A, B, call.transA, call.transB)
           C == DistributedMatrix(<<d.m, d.n>>, A.dtype, A.block_shape, A.context, p)
           args == <<call.transA, call.transB, d.m, d.n, d.k, One, "A", "B", Zero, "C">>
       IN  IF err.kind = "raise"
           THEN /\ outcome' = [outcome EXCEPT ![p] = err]
                /\ pc' = [pc EXCEPT ![p] = "raised"]
                /\ UNCHANGED <<heap, calls, log>>
           ELSE /\ heap' = [heap EXCEPT ![p] = ("C" :> C) @@ @]
                /\ calls' = [calls EXCEPT ![p] = Append(@, dot_call_table(A.dtype, args))]
                /\ log' = [log EXCEPT ![p] = <<"alloc", "backend">>]
                /\ pc' = [pc EXCEPT ![p] = "inBackend"]
                /\ UNCHANGED outcome
    /\ UNCHANGED <<call, operand, evals, info, left>>

\* lines 173-175: the backend's return value is dropped; return C
dot_finish(p) ==
    /\ call.op = "dot"
    /\ pc[p] = "backendReturned"
    /\ outcome' = [outcome EXCEPT ![p] = Return(<<"C">>)]
    /\ pc' = [pc EXCEPT ![p] = "returned"]
    /\ UNCHANGED <<call, heap, operand, evals, calls, info, log, left>>

----------------------------------------------------------------------------
(* The compute backend (scalapy.lowlevel).  An invocation is collective:   *)
(* it completes on every process at once, when every process has entered   *)
(* it.  It returns a status, negative on failure, and writes its operand:  *)
(* the triangle it was told to use and the diagonal get new values, the    *)
(* other triangle is not touched (routines.py, line 117).                  *)

InTriangle(uplo, ri, ci) == IF uplo = "L" THEN ci <= ri ELSE ci >= ri

backend_write(obj, uplo, p) ==
    [obj EXCEPT !.local_array.data =
        [x \in DOMAIN obj.local_array.data |->
            IF InTriangle(uplo, row_index(Desc(obj), p, x), col_index(Desc(obj), p, x))
            THEN Two
            ELSE obj.local_array.data[x]]]

backend_fill(obj) ==
    [obj EXCEPT !.local_array.data = [x \in DOMAIN obj.local_array.data |-> Two]]

Invocation(p) == calls[p][Len(calls[p])]

AllInBackend == \A p \in Procs : pc[p] = "inBackend"

\* p?syevr / p?heevr (task, erange, uplo, N, A, vl, vu, low, high, evals, evecs, work)
pxsyevr ==
    /\ call.op = "eigh"
    /\ AllInBackend
    /\ \E status \in Statuses :
          LET a(p) == Invocation(p).args
              found(p) == IF status < 0 THEN 0
                          ELSE IF a(p)[2] = "I" THEN a(p)[9] - a(p)[8] + 1
                          ELSE a(p)[4]
          IN  /\ heap' = [p \in Procs |->
                    [heap[p] EXCEPT
                        ![a(p)[5]] = backend_write(@, a(p)[3], p),
                        ![a(p)[11]] = backend_fill(@)]]
              /\ evals' = [p \in Procs |->
                    [evals[p] EXCEPT !.data =
                        [i \in DOMAIN evals[p].data |->
                            IF i <= found(p) THEN Two ELSE evals[p].data[i]]]]
              /\ info' = [p \in Procs |->
                    [info |-> status, m |-> found(p), nz |-> found(p)]]
              /\ left' = [p \in Procs |-> heap'[p][a(p)[5]].local_array.data]
    /\ pc' = [p \in Procs |-> "backendReturned"]
    /\ UNCHANGED <<call, operand, calls, outcome, log>>

\* p?potrf (uplo, N, A)
pxpotrf ==
    /\ call.op = "cholesky"
    /\ AllInBackend
    /\ \E status \in Statuses :
          /\ heap' = [p \in Procs |->
                [heap[p] EXCEPT ![Invocation(p).args[3]] =
                    backend_write(@, Invocation(p).args[1], p)]]
          /\ info' = [p \in Procs |-> [info |-> status, m |-> 0, nz |-> 0]]
          /\ left' = [p \in Procs |-> heap'[p][Invocation(p).args[3]].local_array.data]
    /\ pc' = [p \in Procs |-> "backendReturned"]
    /\ UNCHANGED <<call, operand, evals, calls, outcome, log>>

\* p?gemm (transA, transB, m, n, k, alpha, A, B, beta, C)
pxgemm ==
    /\ call.op = "dot"
    /\ AllInBackend
    /\ \E status \in Statuses :
          /\ heap' = [p \in Procs |->
                [heap[p] EXCEPT ![Invocation(p).args[10]] = backend_fill(@)]]
          /\ info' = [p \in Procs |-> [info |-> status, m |-> 0, nz |-> 0]]
          /\ left' = [p \in Procs |-> heap'[p][Invocation(p).args[10]].local_array.data]
    /\ pc' = [p \in Procs |-> "backendReturned"]
    /\ UNCHANGED <<call, operand, evals, calls, outcome, log>>

----------------------------------------------------------------------------

NextEigh ==
    \/ \E p \in Procs : eigh_enter(p)
    \/ pxsyevr
    \/ \E p \in Procs : eigh_finish(p)

NextCholesky ==
    \/ \E p \in Procs : cholesky_enter(p)
    \/ pxpotrf
    \/ \E p \in Procs : cholesky_finish(p)

NextDot ==
    \/ \E p \in Procs : dot_enter(p)
    \/ pxgemm
    \/ \E p \in Procs : dot_finish(p)

Next ==
    \/ \E p \in Procs : eigh_enter(p)
    \/ pxsyevr
    \/ \E p \in Procs : eigh_finish(p)
    \/ \E p \in Procs : cholesky_enter(p)
    \/ pxpotrf
    \/ \E p \in Procs : cholesky_finish(p)
    \/ \E p \in Procs : dot_enter(p)
    \/ pxgemm
    \/ \E p \in Procs : dot_finish(p)

Spec == Init /\ [][Next]_vars
SpecEigh == InitEigh /\ [][NextEigh]_vars
SpecCholesky == InitCholesky /\ [][NextCholesky]_vars
SpecDot == InitDot /\ [][NextDot]_vars

----------------------------------------------------------------------------
(* The properties. *)

Original(p) == CallerA(p)
BackendOperand(p, i) ==
    IF call.op = "eigh" THEN calls[p][i].args[5] ELSE calls[p][i].args[3]
ValidationError(o) == o.kind = "raise" /\ o.cls \in {"ShapeError", "ScalapyException"}

\* the dimensions of op(X): the native counts for N and C, swapped for T and H
RowsUsed(X, T) == IF T \in {"N", "C"} THEN X.global_shape[1] ELSE X.global_shape[2]
ColsUsed(X, T) == IF T \in {"N", "C"} THEN X.global_shape[2] ELSE X.global_shape[1]
InnerMatch(c) == RowsUsed(c.B, c.transB) = ColsUsed(c.A, c.transA)
TokensValid(c) == c.transA \in {"N", "T", "H", "C"} /\ c.transB \in {"N", "T", "H", "C"}

\* C1: for eigh and cholesky called with overwrite_a=False, the caller's A
\* (local buffer, global shape, block shape, element variant) is at every
\* moment of the call what it was before it, whatever the backend wrote and
\* whatever status it reported, and the backend's operand is never A itself.
OriginalUntouchedWithoutOverwrite ==
    \A p \in Procs :
        (call.op \in {"eigh", "cholesky"} /\ call.overwrite_a = "False") =>
            /\ heap[p]["A"] = Original(p)
            /\ \A i \in 1..Len(calls[p]) : BackendOperand(p, i) # "A"

WitnessBackendWroteCopy ==
    \E p \in Procs :
        /\ call.op \in {"eigh", "cholesky"} /\ call.overwrite_a = "False"
        /\ pc[p] = "raised" /\ info[p].info < 0
        /\ calls[p] # <<>>
        /\ heap[p]["copy"].local_array # Original(p).local_array
        /\ heap[p]["A"] = Original(p)

\* C2: after cholesky returns with zero_triangle=True, every entry strictly on
\* the non-selected side of the diagonal is zero on every process and every
\* other entry has the value the backend left; with zero_triangle=False every
\* entry has the value the backend left.
CholeskyZeroesOtherTriangle ==
    \A p \in Procs :
        (call.op = "cholesky" /\ pc[p] = "returned") =>
            LET R == heap[p][outcome[p].value[1]]
                ix == indices(Desc(R), p)
            IN  \A x \in DOMAIN R.local_array.data :
                    IF call.zero_triangle /\
                       (IF call.lower THEN ix.ci[x] > ix.ri[x] ELSE ix.ci[x] < ix.ri[x])
                    THEN R.local_array.data[x] = Zero
                    ELSE R.local_array.data[x] = left[p][x]

\* C3: eigh called with eigvals=(0, k-1), 1 <= k <= N, returns an eigenvalue
\* array of length k.
EighRestrictedReturnsK ==
    \A p \in Procs :
        (call.op = "eigh" /\ call.eigvals.given /\ call.eigvals.lo = 0
            /\ pc[p] = "returned") =>
            Len(outcome[p].value[1]) = call.eigvals.hi + 1

\* C4: the check of dot that failed: a token, the element variants, the shapes
DotFailedCheck(c) ==
    IF ~TokensValid(c) THEN "token"
    ELSE IF c.A.dtype # c.B.dtype THEN "type"
    ELSE IF ~InnerMatch(c) THEN "shape"
    ELSE "none"

\* other calls of dot a caller could have made with the same A: one with a
\* bad transA, one with a bad transB, one with a B of another element
\* variant, one with a B of the wrong number of rows
DotProbe(ta, tb, dt, rows) ==
    [call EXCEPT !.B = [call.A EXCEPT !.global_shape = <<rows, 1>>, !.dtype = dt],
                 !.transA = ta, !.transB = tb]

DotProbes ==
    LET a == call.A
        k == a.global_shape[2]
    IN  {DotProbe("X", "N", a.dtype, k), DotProbe("N", "X", a.dtype, k),
         DotProbe("N", "N", NextDType(a.dtype), k),
         DotProbe("N", "N", a.dtype, (k % MaxDim) + 1)}

DotError(c) == dot_raises(c.A, c.B, c.transA, c.transB)

\* C4 as stated: the kind of the error dot raised tells which of the three
\* checks failed: no call failing another check raises an error of that kind.
DotErrorKindTellsCheck ==
    \A p \in Procs :
        (call.op = "dot" /\ pc[p] = "raised") =>
            \A c \in DotProbes :
                DotFailedCheck(c) \notin {"none", DotFailedCheck(call)} =>
                    DotError(c).cls # outcome[p].cls

\* C4 as amended: dot raises one kind of error, ScalapyException, for all three
\* checks; the message tells which check failed: no call failing another check
\* raises an error with that message, and every failing call raises that kind.
DotErrorMessageTellsCheck ==
    \A p \in Procs :
        (call.op = "dot" /\ pc[p] = "raised") =>
            /\ outcome[p].cls = "ScalapyException"
            /\ DotFailedCheck(call) # "none"
            /\ \A c \in DotProbes :
                  /\ DotFailedCheck(c) # "none" => DotError(c).cls = outcome[p].cls
                  /\ DotFailedCheck(c) \notin {"none", DotFailedCheck(call)} =>
                        DotError(c).msg # outcome[p].msg

WitnessDotRaisedShape ==
    \E p \in Procs :
        /\ call.op = "dot" /\ pc[p] = "raised"
        /\ DotFailedCheck(call) = "shape"
        /\ outcome[p].msg = "Matrix shapes are incompatible."

\* what C5 says of a call of dot that has been started on p
DotOutcomeByInnerDimensions(p) ==
    LET m == RowsUsed(call.A, call.transA)
        k == ColsUsed(call.A, call.transA)
        n == ColsUsed(call.B, call.transB)
    IN  /\ pc[p] # "raised" <=> InnerMatch(call)
        /\ pc[p] # "raised" =>
              /\ Desc(heap[p]["C"]) =
                    [global_shape |-> <<m, n>>, block_shape |-> call.A.block_shape,
                     dtype |-> call.A.dtype, context |-> call.A.context]
              /\ log[p] = <<"alloc", "backend">>
              /\ Len(calls[p]) = 1
              /\ calls[p][1].args =
                    <<call.transA, call.transB, m, n, k, One, "A", "B", Zero, "C">>

\* C5 as stated: for valid tokens and any operand shapes dot succeeds exactly
\* when l = k, and then C is a fresh (m, n) matrix with A's element variant,
\* block shape and grid and the backend is invoked once with
\* (transA, transB, m, n, k, 1.0, A, B, 0.0, C).
DotSucceedsIffInnerMatch ==
    \A p \in Procs :
        (call.op = "dot" /\ pc[p] # "start" /\ TokensValid(call)) =>
            DotOutcomeByInnerDimensions(p)

\* C5 as amended: the same, for operands of the same element variant.
DotSucceedsIffInnerMatchSameVariant ==
    \A p \in Procs :
        (call.op = "dot" /\ pc[p] # "start" /\ TokensValid(call)
            /\ call.A.dtype = call.B.dtype) =>
            DotOutcomeByInnerDimensions(p)

WitnessDotTransposed ==
    \E p \in Procs :
        /\ call.op = "dot" /\ pc[p] = "returned"
        /\ call.transA = "T" /\ call.transB = "C"
        /\ call.A.global_shape = <<2, 1>> /\ call.B.global_shape = <<2, 1>>
        /\ heap[p]["C"].global_shape = <<1, 1>>

\* C6: a process that raised a validation error has made no copy, no
\* allocation and no backend call, no process of the grid has entered the
\* backend for this call, and every process that has raised raised the same.
ValidationErrorsBeforeBackendEverywhere ==
    \A p \in Procs :
        ValidationError(outcome[p]) =>
            /\ log[p] = <<>> /\ calls[p] = <<>>
            /\ heap[p] = [n \in DOMAIN heap[p] |->
                              IF n = "A" THEN CallerA(p) ELSE CallerB(p)]
            /\ \A q \in Procs :
                  /\ pc[q] \in {"start", "raised"}
                  /\ calls[q] = <<>>
                  /\ pc[q] = "raised" => outcome[q] = outcome[p]

WitnessAllRaisedValidation ==
    /\ Cardinality(Procs) > 1
    /\ \A p \in Procs : pc[p] = "raised" /\ ValidationError(outcome[p])

\* what C7 says of a process whose backend call reported a failure
FailurePropagated(p) ==
    /\ outcome[p].kind = "raise" /\ outcome[p].value = <<>>
    /\ Len(calls[p]) = 1
    /\ call.op = "cholesky" =>
          /\ outcome[p].cls = "ScalapackException"
          /\ heap[p][operand[p]].local_array.data = left[p]

BackendFailed(p) ==
    pc[p] \in {"returned", "raised"} /\ calls[p] # <<>> /\ info[p].info < 0

\* C7 as stated: in eigh, cholesky and dot a negative status of the backend
\* makes the operation raise, return nothing and invoke the backend once; in
\* cholesky the error is the decomposition failure and nothing is zeroed.
BackendFailurePropagates ==
    \A p \in Procs : BackendFailed(p) => FailurePropagated(p)

\* C7 as amended: that holds of eigh and cholesky; dot does not look at what
\* the backend returned and returns C whatever the status.
BackendFailurePropagatesFromFactorizations ==
    \A p \in Procs :
        /\ (BackendFailed(p) /\ call.op \in {"eigh", "cholesky"}) => FailurePropagated(p)
        /\ (call.op = "dot" /\ pc[p] \in {"returned", "raised"} /\ calls[p] # <<>>) =>
              outcome[p] = Return(<<"C">>) /\ Len(calls[p]) = 1

WitnessCholeskyFailed ==
    \E p \in Procs :
        /\ call.op = "cholesky" /\ call.zero_triangle /\ BackendFailed(p)
        /\ outcome[p].cls = "ScalapackException"
        /\ \E x \in DOMAIN left[p] : left[p][x] = One

\* C8: cholesky called without overwrite_a works in place: the backend's
\* operand and the matrix returned are the caller's A, and no copy is taken.
CholeskyDefaultOverwrites ==
    \A p \in Procs :
        (call.op = "cholesky" /\ call.overwrite_a = "omitted" /\ calls[p] # <<>>) =>
            /\ calls[p][1].args[3] = "A"
            /\ "copy" \notin DOMAIN heap[p]
            /\ pc[p] = "returned" => outcome[p].value = <<"A">>

\* C9: eigh hands the backend the task V, the triangle L iff lower, the order
\* N = A's global row count, and the index selection: mode A with bounds (1, 1)
\* when eigvals is not given, mode I with bounds (lo+1, hi+1) when it is.
EighBackendArguments ==
    \A p \in Procs :
        (call.op = "eigh" /\ calls[p] # <<>>) =>
            LET a == calls[p][1].args
            IN  /\ a[1] = "V"
                /\ a[3] = "L" <=> call.lower
                /\ a[3] \in {"L", "U"}
                /\ a[4] = call.A.global_shape[1]
                /\ ~call.eigvals.given => a[2] = "A" /\ a[8] = 1 /\ a[9] = 1
                /\ call.eigvals.given =>
                      /\ a[2] = "I"
                      /\ a[8] = call.eigvals.lo + 1 /\ a[9] = call.eigvals.hi + 1
                      /\ a[9] - a[8] + 1 = call.eigvals.hi - call.eigvals.lo + 1

WitnessEighIndexRestricted ==
    \E p \in Procs :
        /\ call.op = "eigh" /\ calls[p] # <<>>
        /\ call.eigvals.given /\ call.eigvals.lo = 1 /\ call.eigvals.hi = 1
        /\ calls[p][1].args[8] = 2

\* C10: dot reports the first failing check in the order transA, transB,
\* element variants, inner dimensions, and checks nothing else: operands on
\* different grids or with different block shapes that pass the four checks
\* get C on A's grid and the backend invoked.
DotChecksInOrderAndNoGridCheck ==
    \A p \in Procs :
        (call.op = "dot" /\ pc[p] # "start") =>
            IF call.transA \notin {"N", "T", "H", "C"}
            THEN outcome[p] = Raise("ScalapyException", "Trans argument for matrix A invalid")
            ELSE IF call.transB \notin {"N", "T", "H", "C"}
            THEN outcome[p] = Raise("ScalapyException", "Trans argument for matrix B invalid")
            ELSE IF call.A.dtype # call.B.dtype
            THEN outcome[p] = Raise("ScalapyException", "Matrices must have same type")
            ELSE IF ~InnerMatch(call)
            THEN outcome[p] = Raise("ScalapyException", "Matrix shapes are incompatible.")
            ELSE /\ outcome[p].kind # "raise"
                 /\ heap[p]["C"].context = call.A.context
                 /\ Len(calls[p]) = 1

WitnessDotAcrossGrids ==
    \E p \in Procs :
        /\ call.op = "dot" /\ pc[p] = "returned"
        /\ call.B.context # call.A.context
        /\ call.B.block_shape # call.A.block_shape
        /\ heap[p]["C"].context = call.A.context

====
